---- MODULE Spec2Model ----
(***************************************************************************)
(* Model of sender.py: Message, SendQueue, RateLimiter and SenderThread.   *)
(*                                                                         *)
(* Units.  Time is counted in hundredths of a second (0.1 s = 10) and      *)
(* tokens in hundredths of a token (one token = 100), so that every float  *)
(* the code computes from the values drawn here is an exact integer.       *)
(* random.random() is drawn in tenths: r stands for the float r / 10.      *)
(*                                                                         *)
(* Time.  time.sleep(d) advances the clock by d.  Apart from the sleeps,   *)
(* time passes (Tick) only while the dispatcher has nothing due: it spins  *)
(* on an item whose send_at has not arrived, or it is blocked in get() on  *)
(* an empty queue after the producers have made their last call.           *)
(*                                                                         *)
(* Producers call accept until the clock passes admit_until; a call made   *)
(* by then may complete at any later time.                                 *)
(*                                                                         *)
(* Locals.  item and now (run) and lag and send_time (send) are cleared    *)
(* when the code no longer reads them: after the iteration, and when send  *)
(* returns.                                                                *)
(*                                                                         *)
(* History.  accepted counts the accept calls that inserted, errors the    *)
(* Exceptions raised in the loop body (SpecFaulty only), and mark records  *)
(* the start of an interval of time (SpecBurst only).                      *)
(***************************************************************************)
EXTENDS Integers, Sequences, FiniteSets, Bags, TLC

\* ---------------------------------------------------------------- bounds
MaxClock == 800
TickStep == 25
AdmitUntil == 720
MaxSize == 2
NumProducers == 2
AdmitMaxSize == 4
E2EMessages == 15
E2EMaxSize == 100

\* accept(now, body) is called with one of these (now, body), once the clock
\* has reached now: a caller passes a reading of the clock, possibly a stale one
LateAccept == 700
AcceptInputs == {<<0, "a">>, <<LateAccept, "b">>}
\* random.random() in tenths
RandomTenths == {0, 9}

\* ------------------------------------------------------ program constants
bucket_size == 10
window_secs == 5
SleepTime == 10

VARIABLES
    clock,                \* time.monotonic()
    queue,                \* SendQueue._queue: a bag of Messages
    maxsize,              \* SendQueue._maxsize
    admit_until,          \* environment: producers call accept up to this time
    prod,                 \* each producer's accept call: pc, now, body, result
    accepted,             \* history: number of accept calls that inserted
    last_tick, available, \* RateLimiter
    pc, item, now,        \* SenderThread.run: position, locals item and now
    lag, send_time,       \* SenderThread.send: locals
    rate_limited,         \* Counter sender_rate_limited
    send_time_histogram, lag_histogram, attempt_histogram,
    attempt_sum,          \* attempt_histogram: the sum of its observations
    errors,               \* history: number of unexpected errors raised
    mark                  \* history: the start of an interval of time

vars == <<clock, queue, maxsize, admit_until, prod, accepted, last_tick, available, pc, item,
          now, lag, send_time, rate_limited, send_time_histogram,
          lag_histogram, attempt_histogram, attempt_sum, errors, mark>>

\* ---------------------------------------------------------------- Message
\* adm is a history field: the (now, body) of the accept call that admitted
\* the logical message; the code has no such field.
Message(body, send_at, queued_at, attempt, adm) ==
    [body |-> body, send_at |-> send_at, queued_at |-> queued_at,
     attempt |-> attempt, adm |-> adm]

NoMessage == Message("", 0, 0, 0, <<0, "">>)

\* mutant: the retry keeps the attempt of its source
make_next_attempt_same_attempt(m, delay, t) ==
    Message(m.body, t + delay, m.queued_at, m.attempt, m.adm)

\* mutant: the retry is stamped as if it were admitted anew
make_next_attempt_requeued(m, delay, t) ==
    Message(m.body, t + delay, t, m.attempt + 1, m.adm)

make_next_attempt(m, delay, t) ==
    Message(m.body, t + delay, m.queued_at, m.attempt + 1, m.adm)

\* mutant: the comparison is reversed
Message_lt_reversed(a, b) == a.send_at > b.send_at

Message_lt(a, b) == a.send_at < b.send_at

\* -------------------------------------------------------------- SendQueue
qsize == BagCardinality(queue)

\* mutant: put checks the capacity as accept does
put_bounded(q, m) == IF BagCardinality(q) < maxsize THEN q (+) SetToBag({m}) ELSE q

\* mutant: the item put counts as one more attempt
put_next_attempt(q, m) == q (+) SetToBag({[m EXCEPT !.attempt = @ + 1]})

put(q, m) == q (+) SetToBag({m})

\* PriorityQueue.get: an entry no other entry is lower than
IsLowest(q, m) == \A o \in BagToSet(q) : ~Message_lt(o, m)

\* mutant: accept has no capacity check
accept_admits_always(size, max) == TRUE

\* mutant: off by one in the capacity check
accept_admits_inclusive(size, max) == size <= max

accept_admits(size, max) == size < max

\* --------------------------------------------------------------- RateLimiter
\* mutant: any positive fraction of a token admits
is_allowed_fraction(tick, avail, t) ==
    LET passed == t - tick
        grown == avail + (passed * bucket_size * 100) \div (window_secs * 100)
        capped == IF grown > bucket_size * 100 THEN bucket_size * 100 ELSE grown
    IN [last_tick |-> t, available |-> capped, allowed |-> capped > 0]

\* mutant: the bucket refills twice as fast
is_allowed_double_rate(tick, avail, t) ==
    LET passed == t - tick
        grown == avail + (2 * passed * bucket_size * 100) \div (window_secs * 100)
        capped == IF grown > bucket_size * 100 THEN bucket_size * 100 ELSE grown
    IN [last_tick |-> t, available |-> capped, allowed |-> capped >= 100]

\* mutant: the check takes the token itself
is_allowed_deducts(tick, avail, t) ==
    LET passed == t - tick
        grown == avail + (passed * bucket_size * 100) \div (window_secs * 100)
        capped == IF grown > bucket_size * 100 THEN bucket_size * 100 ELSE grown
    IN [last_tick |-> t,
        available |-> IF capped >= 100 THEN capped - 100 ELSE capped,
        allowed |-> capped >= 100]

is_allowed(tick, avail, t) ==
    LET passed == t - tick
        grown == avail + (passed * bucket_size * 100) \div (window_secs * 100)
        capped == IF grown > bucket_size * 100 THEN bucket_size * 100 ELSE grown
    IN [last_tick |-> t, available |-> capped, allowed |-> capped >= 100]

\* -------------------------------------------------------------- SenderThread
\* mutant: the admission time is compared instead of the scheduled time
too_early_queued_at(m, t) == m.queued_at > t

\* mutant: the comparison is reversed
too_early_reversed(m, t) == m.send_at < t

too_early(m, t) == m.send_at > t

\* mutant: the first retry's 0.75 s is forgotten
retry_delay_no_base(attempt, r) == attempt * 150 + 5 * r

retry_delay(attempt, r) ==
    (IF attempt > 0 THEN attempt * 150 ELSE 75) + 5 * r

\* mutant: the transport takes no time at all
simulated_send_time_none(r) == 0

simulated_send_time(r) == 20 + 3 * r

\* a Histogram: the number of observations and the value observed last
Histogram == [count |-> 0, last |-> 0]

\* mutant: an observation is recorded twice
observe_twice(h, v) == [count |-> h.count + 2, last |-> v]

observe(h, v) == [count |-> h.count + 1, last |-> v]

\* ------------------------------------------------------------------- Init
\* no interval has started
NoMark == [set |-> FALSE, clock |-> 0, sends |-> 0]

IdleProducer == [pc |-> "idle", now |-> 0, body |-> "", result |-> FALSE]

InitWith(producers, max, start, until) ==
    /\ clock = start
    /\ queue = EmptyBag
    /\ maxsize = max
    /\ admit_until = until
    /\ prod = [p \in producers |-> IdleProducer]
    /\ accepted = 0
    /\ last_tick = start
    /\ available = bucket_size * 100
    /\ pc = "get"
    /\ item = NoMessage
    /\ now = 0
    /\ lag = 0
    /\ send_time = 0
    /\ rate_limited = 0
    /\ send_time_histogram = Histogram
    /\ lag_histogram = Histogram
    /\ attempt_histogram = Histogram
    /\ attempt_sum = 0
    /\ errors = 0
    /\ mark = NoMark

Init == InitWith({1}, MaxSize, 0, AdmitUntil)

envVars == <<maxsize, admit_until>>

producerVars == <<prod, accepted>>
limiterVars == <<last_tick, available>>
metricVars == <<rate_limited, send_time_histogram, lag_histogram, attempt_histogram,
                attempt_sum>>
senderVars == <<pc, item, now, lag, send_time, errors, mark>>

\* ----------------------------------------------------------------- accept
\* accept(now, body) is called: line 48 builds the Message
accept_call(p, t, body) ==
    /\ prod[p].pc = "idle"
    /\ t <= clock
    /\ clock <= admit_until
    /\ prod' = [prod EXCEPT ![p] = [pc |-> "check", now |-> t, body |-> body,
                                    result |-> FALSE]]
    /\ UNCHANGED <<clock, queue, envVars, accepted, limiterVars, senderVars, metricVars>>

\* line 49: the size check; line 52 when it fails
accept_check(p) ==
    /\ prod[p].pc = "check"
    /\ prod' = [prod EXCEPT ![p].pc = IF accept_admits(qsize, maxsize)
                                      THEN "insert" ELSE "idle"]
    /\ UNCHANGED <<clock, queue, envVars, accepted, limiterVars, senderVars, metricVars>>

\* lines 50-51: put_nowait and return True
accept_insert(p) ==
    /\ prod[p].pc = "insert"
    /\ queue' = put(queue, Message(prod[p].body, prod[p].now, prod[p].now, 0,
                                   <<prod[p].now, prod[p].body>>))
    /\ prod' = [prod EXCEPT ![p].pc = "idle", ![p].result = TRUE]
    /\ accepted' = accepted + 1
    /\ UNCHANGED <<clock, envVars, limiterVars, senderVars, metricVars>>

\* ---------------------------------------------------------------- run loop
\* mutant: get does not block: on an empty queue it hands out an empty item
run_get_nowait ==
    /\ pc = "get"
    /\ IF queue = EmptyBag
       THEN item' = NoMessage /\ queue' = queue
       ELSE \E m \in BagToSet(queue) :
               /\ IsLowest(queue, m)
               /\ item' = m
               /\ queue' = queue (-) SetToBag({m})
    /\ now' = clock
    /\ pc' = "check"
    /\ UNCHANGED <<clock, envVars, producerVars, limiterVars, lag, send_time, metricVars,
                   errors, mark>>

\* lines 106-107: item = queue.get(); now = time.monotonic()
run_get ==
    /\ pc = "get"
    /\ \E m \in BagToSet(queue) :
        /\ IsLowest(queue, m)
        /\ item' = m
        /\ queue' = queue (-) SetToBag({m})
    /\ now' = clock
    /\ pc' = "check"
    /\ UNCHANGED <<clock, envVars, producerVars, limiterVars, lag, send_time, metricVars,
                   errors, mark>>

\* mutant: an item dequeued too early is not put back
run_check_drops ==
    /\ pc = "check"
    /\ queue' = queue
    /\ IF too_early(item, now)
       THEN /\ pc' = "get"
            /\ item' = NoMessage
            /\ now' = 0
       ELSE /\ pc' = "try_send"
            /\ UNCHANGED <<item, now>>
    /\ UNCHANGED <<clock, envVars, producerVars, limiterVars, lag, send_time, metricVars,
                   errors, mark>>

\* lines 109-112: too early: put back and continue (the sleep is skipped)
\* line 116 otherwise
run_check ==
    /\ pc = "check"
    /\ IF too_early(item, now)
       THEN /\ queue' = put(queue, item)
            /\ pc' = "get"
            /\ item' = NoMessage
            /\ now' = 0
       ELSE /\ queue' = queue
            /\ pc' = "try_send"
            /\ UNCHANGED <<item, now>>
    /\ UNCHANGED <<clock, envVars, producerVars, limiterVars, lag, send_time, metricVars,
                   errors, mark>>

\* try_send and send up to the simulated transport's sleep:
\* rate limited (140-142, 128-134) or admitted (143-146).
\* Only the dispatcher reads or writes the limiter, and the clock stands still
\* between line 64 and line 21 or 144, so the step is taken at once.
try_send ==
    /\ pc = "try_send"
    /\ \E r \in RandomTenths :
        LET rl == is_allowed(last_tick, available, clock) IN
        /\ last_tick' = rl.last_tick
        /\ IF ~rl.allowed
           THEN LET next == make_next_attempt(item, retry_delay(item.attempt, r), clock) IN
                /\ available' = rl.available
                /\ rate_limited' = rate_limited + 1
                /\ item' = next
                /\ queue' = put(queue, next)
                /\ pc' = "sleep"
                /\ UNCHANGED <<lag, send_time>>
           ELSE /\ available' = rl.available - 100
                /\ lag' = clock - item.queued_at
                /\ send_time' = simulated_send_time(r)
                /\ pc' = "sending"
                /\ UNCHANGED <<rate_limited, item, queue>>
    /\ UNCHANGED <<clock, envVars, producerVars, now, send_time_histogram,
                   lag_histogram, attempt_histogram, attempt_sum, errors, mark>>

\* lines 147-151 and 126: the sleep returns, the observations, return True
send_finish ==
    /\ pc = "sending"
    /\ clock' = clock + send_time
    /\ lag_histogram' = observe(lag_histogram, lag)
    /\ send_time_histogram' = observe(send_time_histogram, send_time)
    /\ attempt_histogram' = observe(attempt_histogram, item.attempt)
    /\ attempt_sum' = attempt_sum + item.attempt
    /\ pc' = "sleep"
    /\ lag' = 0
    /\ send_time' = 0
    /\ UNCHANGED <<queue, envVars, producerVars, limiterVars, item, now, rate_limited,
                   errors, mark>>

\* line 120: time.sleep(0.1)
run_sleep ==
    /\ pc = "sleep"
    /\ clock' = clock + SleepTime
    /\ pc' = "get"
    /\ item' = NoMessage
    /\ now' = 0
    /\ UNCHANGED <<queue, envVars, producerVars, limiterVars, lag, send_time, metricVars,
                   errors, mark>>

\* the dispatcher spins on items that are all too early
Spinning == queue # EmptyBag /\ \A m \in BagToSet(queue) : m.send_at > clock

\* the dispatcher is blocked in get() and no accept call will be made
Idle == queue = EmptyBag /\ clock >= admit_until /\ clock + TickStep <= MaxClock

\* time passes while the dispatcher has nothing due
Tick ==
    /\ pc = "get"
    /\ Spinning \/ Idle
    /\ clock' = clock + TickStep
    /\ UNCHANGED <<queue, envVars, producerVars, limiterVars, senderVars, metricVars>>

Producer(p) ==
    \/ \E in \in AcceptInputs : accept_call(p, in[1], in[2])
    \/ accept_check(p)
    \/ accept_insert(p)

Dispatcher == run_get \/ run_check \/ try_send \/ send_finish \/ run_sleep

Next == (\E p \in DOMAIN prod : Producer(p)) \/ Dispatcher \/ Tick

Spec == Init /\ [][Next]_vars

\* The dispatcher thread keeps running, and the clock keeps advancing: it does
\* so whatever the dispatcher is at, so a dispatcher that polls without sleeping
\* cannot hold it back (strong fairness).
Fairness == WF_vars(Dispatcher) /\ SF_vars(Tick)

SpecFair == Spec /\ Fairness

\* -------------------------------------------------- producers on their own
\* The queue before the SenderThread is started; the clock reads LateAccept
\* when the queue is constructed.
NextProducers == \E p \in DOMAIN prod : Producer(p)

InitAdmit == \E max \in 0..AdmitMaxSize : InitWith({1}, max, LateAccept, MaxClock)

SpecAdmit == InitAdmit /\ [][NextProducers]_vars

InitProducers ==
    \E max \in 1..AdmitMaxSize : InitWith(1..NumProducers, max, LateAccept, MaxClock)

SpecProducers == InitProducers /\ [][NextProducers]_vars

\* ------------------------------------------------- the end-to-end scenario
\* maxsize 100, E2EMessages messages admitted at now = 0, one dispatcher
InitE2E == InitWith({1}, E2EMaxSize, 0, 0)

ProducerE2E(p) ==
    \/ accepted < E2EMessages /\ accept_call(p, 0, "a")
    \/ accept_check(p)
    \/ accept_insert(p)

NextE2E == (\E p \in DOMAIN prod : ProducerE2E(p)) \/ Dispatcher \/ Tick

SpecE2E == InitE2E /\ [][NextE2E]_vars

SpecE2EFair == SpecE2E /\ Fairness

\* ------------------------------------------------------------- a burst
\* BurstMessages messages are admitted at now = 0 to a queue that has room for
\* all of them, and then the SenderThread is started.
BurstMessages == 25

InitBurst == InitWith({1}, BurstMessages, 0, 0)

ProducerBurst(p) ==
    \/ accepted < BurstMessages /\ accept_call(p, 0, "a")
    \/ accept_check(p)
    \/ accept_insert(p)

\* An interval of time starts with the admission of a send (line 143): the
\* transport is about to be invoked; sends counts the sends completed before.
StartInterval ==
    /\ pc = "sending"
    /\ ~mark.set
    /\ mark' = [set |-> TRUE, clock |-> clock, sends |-> attempt_histogram.count]
    /\ UNCHANGED <<clock, queue, envVars, producerVars, limiterVars, pc, item, now, lag,
                   send_time, errors, metricVars>>

NextBurst ==
    \/ \E p \in DOMAIN prod : ProducerBurst(p)
    \/ accepted = BurstMessages /\ Dispatcher
    \/ accepted = BurstMessages /\ Tick
    \/ StartInterval

SpecBurst == InitBurst /\ [][NextBurst]_vars

\* The producers pause for IdleTime while the dispatcher is blocked in get()
\* on an empty queue.
IdleTime == 500

Wait ==
    /\ pc = "get"
    /\ queue = EmptyBag
    /\ clock + IdleTime <= admit_until
    /\ clock' = clock + IdleTime
    /\ UNCHANGED <<queue, envVars, producerVars, limiterVars, senderVars, metricVars>>

NextIdle == Next \/ Wait

SpecIdle == Init /\ [][NextIdle]_vars

\* -------------------------------------------------------- unexpected errors
\* at most this many Exceptions are raised in the dispatcher's loop body
MaxErrors == 2

\* mutant: run has no handler, so only try_send's own handler catches
on_error_unhandled_in_run(at) ==
    IF at \in {"try_send", "sending"} THEN "sleep" ELSE "terminated"

\* Where the dispatcher goes on after an Exception raised at position at.
\* Raised in try_send or send, it is caught at lines 135-136 and try_send
\* returns to line 116; raised elsewhere in the loop body, it is caught at
\* lines 117-118.  logger.error never raises (logging handles its own
\* formatting errors), so either way the next statement is line 120.
on_error(at) == "sleep"

\* An Exception is raised somewhere in the loop body: in get (line 106),
\* between get and try_send (lines 107-112), in try_send or send before the
\* transport (lines 123-146, before or after the limiter was consulted and
\* the counter or the token updated), or in the transport and the
\* observations (lines 147-150, before or after the sleep).  The item in hand
\* is referenced no more.
unexpected_error ==
    /\ errors < MaxErrors
    /\ pc \in {"get", "check", "try_send", "sending"}
    /\ errors' = errors + 1
    /\ pc' = on_error(pc)
    /\ item' = NoMessage
    /\ now' = 0
    /\ lag' = 0
    /\ send_time' = 0
    /\ \E done \in BOOLEAN :
        LET rl == is_allowed(last_tick, available, clock) IN
        /\ clock' = IF pc = "sending" /\ done THEN clock + send_time ELSE clock
        /\ last_tick' = IF pc = "try_send" /\ done THEN rl.last_tick ELSE last_tick
        /\ available' = IF pc = "try_send" /\ done
                        THEN (IF rl.allowed THEN rl.available - 100 ELSE rl.available)
                        ELSE available
        /\ rate_limited' = IF pc = "try_send" /\ done /\ ~rl.allowed
                           THEN rate_limited + 1 ELSE rate_limited
    /\ UNCHANGED <<queue, envVars, producerVars, send_time_histogram, lag_histogram,
                   attempt_histogram, attempt_sum, mark>>

NextFaulty == Next \/ unexpected_error

\* producers call accept during the first FaultyUntil hundredths of a second
FaultyUntil == 100

InitFaulty == InitWith({1}, MaxSize, 0, FaultyUntil)

SpecFaulty == InitFaulty /\ [][NextFaulty]_vars

\* ------------------------------------------------------------------ claims
\* every Message in the system: queued, or held by the dispatcher
Messages == BagToSet(queue) \cup {item}

\* the dispatcher holds an item: after get, before the put or the end of send
Held == IF pc \in {"check", "try_send", "sending"} THEN 1 ELSE 0

\* the Messages queued or held, with their multiplicities
InSystem == IF Held = 1 THEN queue (+) SetToBag({item}) ELSE queue

\* C1: sequential admission. With one producer and no dispatcher, a call made
\* while fewer than maxsize calls have returned true passes the check, inserts
\* Message(body, send_at = now, queued_at = now, attempt = 0) and returns true;
\* a call made after maxsize calls returned true returns false and leaves the
\* queue, still of size maxsize, unchanged.
C1_SequentialAdmission ==
    [][\A p \in DOMAIN prod :
        /\ (prod[p].pc = "check" /\ prod'[p].pc # "check") =>
              IF accepted < maxsize
              THEN prod'[p].pc = "insert" /\ queue' = queue
              ELSE /\ prod'[p].pc = "idle"
                   /\ prod'[p].result = FALSE
                   /\ queue' = queue
                   /\ BagCardinality(queue) = maxsize
        /\ (prod[p].pc = "insert" /\ prod'[p].pc # "insert") =>
              /\ prod'[p].pc = "idle"
              /\ prod'[p].result = TRUE
              /\ accepted' = accepted + 1
              /\ accepted' <= maxsize
              /\ BagCardinality(queue') = accepted'
              /\ queue' = queue (+) SetToBag({[body |-> prod[p].body,
                                               send_at |-> prod[p].now,
                                               queued_at |-> prod[p].now,
                                               attempt |-> 0,
                                               adm |-> <<prod[p].now, prod[p].body>>]})
      ]_vars

\* a call was refused after maxsize >= 2 calls were admitted
C1_Witness ==
    /\ maxsize >= 2
    /\ accepted = maxsize
    /\ prod[1].pc = "idle"
    /\ prod[1].result = FALSE
    /\ BagCardinality(queue) = maxsize

\* C2: whenever the dispatcher is in try_send or send for an item, the item's
\* send_at is at most the now the loop read, itself at most the clock, for
\* first attempts and retries alike.
C2_NeverSendEarly ==
    pc \in {"try_send", "sending"} => item.send_at <= now /\ now <= clock

\* a retry is in try_send
C2_Witness == pc = "try_send" /\ item.attempt >= 1 /\ item.send_at > item.queued_at

\* C3: 0 <= available <= bucket_size in every reachable state.
C3_TokenBounds == 0 <= available /\ available <= bucket_size * 100

\* a token was deducted and less than one token is left
C3_Witness == pc = "sending" /\ available < 100

\* C4: every Message in the system carries the now and the body of the accept
\* call that admitted it, whatever its attempt; a retry is the source with
\* attempt + 1 and send_at = clock + delay, and nothing else changed.
C4_Identity == \A m \in Messages : m.queued_at = m.adm[1] /\ m.body = m.adm[2]

C4_RetryStep ==
    rate_limited' # rate_limited =>
        /\ \E r \in RandomTenths :
              item' = [item EXCEPT !.attempt = item.attempt + 1,
                                   !.send_at = clock' + retry_delay(item.attempt, r)]
        /\ queue' = queue (+) SetToBag({item'})

C4_RetryIdentity == []C4_Identity /\ [][C4_RetryStep]_vars

\* a message admitted late was retried twice
C4_Witness ==
    \E m \in BagToSet(queue) : m.attempt >= 2 /\ m.queued_at = LateAccept /\ m.body = "b"

\* C5 as claimed: the first ten sends are first attempts, and every send after
\* the tenth is of a message that was rate-limited before (attempt >= 1).
C5_AsClaimed ==
    pc = "sending" =>
        IF attempt_histogram.count < 10 THEN item.attempt = 0 ELSE item.attempt >= 1

\* C5 as amended: in the end-to-end scenario no message is ever rate-limited:
\* every message, the last five included, is dispatched on its first attempt.
C5_NoneRateLimited ==
    /\ rate_limited = 0
    /\ \A m \in Messages : m.attempt = 0
    /\ pc = "try_send" => is_allowed(last_tick, available, clock).allowed

\* all the messages of the scenario were sent
C5_Witness ==
    /\ attempt_histogram.count = E2EMessages
    /\ accepted = E2EMessages
    /\ attempt_histogram.last = 0

\* C6: eventually the queue is empty and every admitted message has been sent,
\* for good.
C6_EventualDelivery ==
    <>[](queue = EmptyBag /\ pc = "get" /\ attempt_histogram.count = accepted)

\* everything was delivered, some of it after rate-limited retries
C6_Witness ==
    /\ queue = EmptyBag
    /\ pc = "get"
    /\ attempt_histogram.count = accepted
    /\ rate_limited > 0
    /\ \A p \in DOMAIN prod : prod[p].pc = "idle"
    /\ clock > admit_until

\* C7: an item is never dequeued while the queue holds an item whose send_at
\* is smaller by more than the poll interval, and the item dequeued is the one
\* passed on to try_send and send.
C7_DispatchOrdering ==
    [][/\ (pc = "get" /\ pc' = "check") =>
            \A m \in BagToSet(queue') : ~(m.send_at + SleepTime < item'.send_at)
       /\ (pc \in {"check", "try_send"} /\ pc' \in {"try_send", "sending"}) =>
            item' = item
      ]_vars

\* an item is being sent while a later one waits in the queue
C7_Witness ==
    /\ pc = "sending"
    /\ \E m \in BagToSet(queue) : m.send_at > item.send_at + SleepTime

\* C8: a failed send of an item of attempt k schedules the retry at
\* clock + delay with delay in [0.75, 1.25) for k = 0 and in
\* [1.5 k, 1.5 k + 0.5) for k > 0.
C8_BackoffRange ==
    [][rate_limited' # rate_limited =>
        LET k == item.attempt
            delay == item'.send_at - clock'
        IN /\ item'.attempt = k + 1
           /\ BagIn(item', queue')
           /\ IF k = 0 THEN 75 <= delay /\ delay < 125
                        ELSE 150 * k <= delay /\ delay < 150 * k + 50
      ]_vars

\* a retry was rate-limited again
C8_Witness == pc = "sleep" /\ item.attempt >= 2 /\ item.send_at >= clock + 150

\* C9 as claimed: the dispatcher comes back to queue.get() only from the sleep.
C9_SleepBeforeEveryGet == [][(pc # "get" /\ pc' = "get") => pc = "sleep"]_vars

\* C10 as claimed: right after an accept that returns true the queue holds at
\* most maxsize items.
C10_AdmissionBound ==
    [][\A p \in DOMAIN prod :
        (prod[p].pc = "insert" /\ prod'[p].pc = "idle") =>
            BagCardinality(queue') <= maxsize
      ]_vars

\* C11: an Exception raised at any point of the loop body (in get, in the
\* too-early check, in try_send or in send) is caught: the step that raises
\* it leaves the dispatcher at the sleep that ends the iteration, with the
\* queue and the producers untouched; from there the next get is always
\* enabled; the dispatcher is never terminated, and the result of accept is
\* always a boolean.
C11_CaughtStep ==
    errors' # errors =>
        /\ pc \in {"get", "check", "try_send", "sending"}
        /\ pc' = "sleep"
        /\ queue' = queue
        /\ prod' = prod

C11_Alive ==
    /\ pc \in {"get", "check", "try_send", "sending", "sleep"}
    /\ pc = "sleep" => ENABLED run_sleep
    /\ \A p \in DOMAIN prod : prod[p].result \in BOOLEAN

C11_NoCrashPath == []C11_Alive /\ [][C11_CaughtStep]_vars

\* MaxErrors errors were raised, and the dispatcher is sending a message
C11_Witness == errors = MaxErrors /\ pc = "sending" /\ attempt_histogram.count > 0

\* C12: while the queue is empty and the dispatcher is in queue.get(), it
\* stays there: whatever step is taken (time passing, a producer's call), the
\* rate-limited counter, the three histograms, available and last_tick are
\* unchanged, until an item has been inserted.
C12_EmptyQueueIdle ==
    [][(pc = "get" /\ queue = EmptyBag) =>
          /\ pc' = "get"
          /\ UNCHANGED <<rate_limited, send_time_histogram, lag_histogram,
                         attempt_histogram, attempt_sum, available, last_tick>>
      ]_vars

\* the dispatcher has been blocked on the empty queue for two ticks, after it
\* sent every message
C12_Witness ==
    /\ pc = "get"
    /\ queue = EmptyBag
    /\ attempt_histogram.count > 0
    /\ clock >= admit_until + 2 * TickStep
    /\ clock >= last_tick + 2 * TickStep

\* C13: the is_allowed() call of a send attempt, made elapsed = clock -
\* last_tick after the last one, sets last_tick to the clock and available to
\* refilled = min(bucket_size, available + elapsed * bucket_size /
\* window_secs), which is never less than available was; it returns true
\* (the send is admitted, and the caller then deducts one token) exactly when
\* refilled >= 1; with bucket_size 10 and window_secs 5, refilled is exactly
\* 10 whenever elapsed >= 5 s.
C13_Refilled ==
    LET elapsed == clock - last_tick
        grown == available + 2 * elapsed
    IN IF grown < 1000 THEN grown ELSE 1000

C13_RefillStep ==
    [][(pc = "try_send" /\ pc' # "try_send") =>
          /\ last_tick' = clock
          /\ C13_Refilled >= available
          /\ clock - last_tick >= 500 => C13_Refilled = 1000
          /\ IF C13_Refilled >= 100
             THEN pc' = "sending" /\ available' = C13_Refilled - 100
             ELSE pc' = "sleep" /\ available' = C13_Refilled
      ]_vars

\* is_allowed() is about to be called 5 s or more after the last call, which
\* left less than a full bucket
C13_Witness ==
    /\ pc = "try_send"
    /\ clock - last_tick >= 500
    /\ available < bucket_size * 100
    /\ attempt_histogram.count > 0

\* C14: a send attempt of a due item has one of two outcomes.  Rate-limited:
\* the counter grows by one, available is not reduced, no histogram is
\* touched, and the item's retry (attempt + 1) is put on the queue.  Admitted:
\* exactly one token is taken, the counter and the queue are unchanged, and
\* when the transport returns each histogram has exactly one more
\* observation: lag = time of admission - queued_at >= 0, the send duration,
\* and the item's attempt; nothing is put on the queue.
C14_Histograms == <<send_time_histogram, lag_histogram, attempt_histogram, attempt_sum>>

C14_Attempt ==
    (pc = "try_send" /\ pc' # "try_send") =>
        /\ UNCHANGED C14_Histograms
        /\ \/ /\ pc' = "sleep"
              /\ rate_limited' = rate_limited + 1
              /\ available' >= available
              /\ item'.attempt = item.attempt + 1
              /\ item'.body = item.body
              /\ queue' = queue (+) SetToBag({item'})
           \/ /\ pc' = "sending"
              /\ rate_limited' = rate_limited
              /\ available' = C13_Refilled - 100
              /\ available' >= 0
              /\ queue' = queue
              /\ item' = item

C14_Transport ==
    (pc = "sending" /\ pc' # "sending") =>
        /\ pc' = "sleep"
        /\ lag_histogram'.count = lag_histogram.count + 1
        /\ lag_histogram'.last = last_tick - item.queued_at
        /\ lag_histogram'.last >= 0
        /\ send_time_histogram'.count = send_time_histogram.count + 1
        /\ send_time_histogram'.last = clock' - clock
        /\ attempt_histogram'.count = attempt_histogram.count + 1
        /\ attempt_histogram'.last = item.attempt
        /\ attempt_sum' = attempt_sum + item.attempt
        /\ UNCHANGED <<rate_limited, available, last_tick, queue, item>>

C14_SendOutcomes == [][C14_Attempt /\ C14_Transport]_vars

\* a message that was rate-limited before has been admitted and sent
C14_Witness ==
    /\ pc = "sleep"
    /\ item.attempt >= 1
    /\ attempt_histogram.last = item.attempt
    /\ lag_histogram.last >= 75
    /\ ~BagIn(item, queue)
    /\ rate_limited >= item.attempt

\* C15: when the item dequeued has send_at > now, the dispatcher puts that
\* very item back (body, send_at, queued_at and attempt as they were) and
\* starts the next iteration; neither the dequeuing nor the push-back changes
\* available, last_tick, the rate-limited counter or a histogram.
C15_PushBack ==
    [][/\ (pc = "get" /\ pc' # "get") =>
            UNCHANGED <<limiterVars, metricVars>>
       /\ (pc = "check" /\ pc' # "check" /\ item.send_at > now) =>
            /\ pc' = "get"
            /\ queue' = queue (+) SetToBag({item})
            /\ UNCHANGED <<limiterVars, metricVars>>
      ]_vars

\* a retry was dequeued before its send_at, while a message admitted later
\* waits in the queue
C15_Witness ==
    /\ pc = "check"
    /\ item.send_at > now
    /\ item.attempt >= 1
    /\ \E m \in BagToSet(queue) : m.queued_at > item.queued_at

\* C16: put always inserts: each put of the dispatcher (a rate-limited retry,
\* a push-back) makes the queue one item longer, also when it already holds
\* maxsize items or more; so with one producer and the dispatcher the queue
\* can hold more than maxsize items (witness).
C16_PutAlwaysInserts ==
    [][((pc = "try_send" /\ pc' = "sleep") \/ (pc = "check" /\ pc' = "get")) =>
          /\ BagCardinality(queue') = BagCardinality(queue) + 1
          /\ BagIn(item, queue') \/ BagIn(item', queue')
      ]_vars

\* the producer filled the slot of the item the dispatcher held, and the
\* item's retry was put on top of maxsize items
C16_Witness ==
    /\ qsize > maxsize
    /\ DOMAIN prod = {1}
    /\ pc = "sleep"
    /\ item.attempt >= 1
    /\ BagIn(item, queue)
    /\ \E m \in BagToSet(queue) : m.attempt = 0 /\ m.queued_at = LateAccept

C17_Inserting == Cardinality({p \in DOMAIN prod : prod[p].pc = "insert"})

C18_Queued(a) ==
    LET inSystem == InSystem IN
    BagCardinality([m \in {x \in BagToSet(inSystem) : x.adm = a} |-> inSystem[m]])

C18_Count == accepted = BagCardinality(InSystem) + attempt_histogram.count

C18_Step ==
    /\ attempt_histogram'.count \in {attempt_histogram.count, attempt_histogram.count + 1}
    /\ attempt_histogram'.count # attempt_histogram.count => pc = "sending" /\ pc' = "sleep"
    /\ \A a \in AcceptInputs :
          C18_Queued(a)' = C18_Queued(a)
              + (IF \E p \in DOMAIN prod : /\ prod[p].pc = "insert" /\ prod'[p].pc = "idle"
                                           /\ <<prod[p].now, prod[p].body>> = a
                 THEN 1 ELSE 0)
              - (IF attempt_histogram'.count # attempt_histogram.count /\ item.adm = a
                 THEN 1 ELSE 0)

C18_Conservation == []C18_Count /\ [][C18_Step]_vars

\* messages are in all three places at once: a retry is being sent, a message
\* admitted late is queued, and others were sent
C18_Witness ==
    /\ pc = "sending"
    /\ item.attempt >= 1
    /\ \E m \in BagToSet(queue) : m.adm = <<LateAccept, "b">>
    /\ attempt_histogram.count >= 1
    /\ errors = 0

\* C19: in every interval of time, of length T, at most bucket_size +
\* T * bucket_size / window_secs sends are admitted: for every interval that
\* starts with an admission (an interval that starts between two admissions
\* holds no more sends than the one that starts with the next admission, and
\* is longer) and ends now, the sends admitted in it, the one in progress
\* included, are at most 10 + T * 10 / 5; and no send is admitted with less
\* than one token: the token deducted never leaves available negative.
C19_Admitted == attempt_histogram.count + (IF pc = "sending" THEN 1 ELSE 0)

C19_ThroughputBound ==
    /\ mark.set =>
          100 * (C19_Admitted - mark.sends)
              <= bucket_size * 100
                 + ((clock - mark.clock) * bucket_size * 100) \div (window_secs * 100)
    /\ 100 * C19_Admitted
          <= bucket_size * 100 + (clock * bucket_size * 100) \div (window_secs * 100)
    /\ pc = "sending" => available >= 0 /\ last_tick = clock

\* an interval that started after the first sends holds twelve sends or
\* more, and sends were refused in it for lack of a token
C19_Witness ==
    /\ mark.set
    /\ mark.sends >= 3
    /\ pc = "sending"
    /\ C19_Admitted - mark.sends >= 12
    /\ rate_limited > 0

\* C20: without unexpected errors the rate-limited counter equals the sum of
\* attempt over the messages in the system (queued, with multiplicity, or
\* held) plus the sum of the attempts observed at the successful sends; the
\* attempt observed at a successful send is the attempt of the item sent, and
\* a push-back changes neither the counter nor the attempts.
RECURSIVE C20_SumAttempts(_, _)
C20_SumAttempts(S, b) ==
    IF S = {} THEN 0
    ELSE LET m == CHOOSE x \in S : TRUE
         IN m.attempt * b[m] + C20_SumAttempts(S \ {m}, b)

C20_InSystem == C20_SumAttempts(BagToSet(InSystem), InSystem)

C20_Sum == rate_limited = C20_InSystem + attempt_sum

C20_Step ==
    /\ attempt_sum' # attempt_sum \/ attempt_histogram' # attempt_histogram =>
          /\ attempt_histogram'.last = item.attempt
          /\ attempt_sum' = attempt_sum + item.attempt
    /\ (pc = "check" /\ pc' = "get") =>
          /\ rate_limited' = rate_limited
          /\ C20_InSystem' = C20_InSystem

C20_AttemptAccounting == []C20_Sum /\ [][C20_Step]_vars

\* rate-limited messages were sent, after two rate-limited attempts in all,
\* and another rate-limited message waits in the queue
C20_Witness ==
    /\ attempt_histogram.last >= 1
    /\ attempt_sum >= 2
    /\ \E m \in BagToSet(queue) : m.attempt >= 1
    /\ rate_limited >= 3

====
